---- MODULE Spec2Model ----
(***************************************************************************)
(* Model of include/gemini/core/util/perf_utils.h (namespace gemini::perf):*)
(* ms_since, cout_mutex / print_line, IOBytesDelta, IOScope, MultiIOScope,  *)
(* ScopedTimer and StageTimer, used from several threads.                   *)
(*                                                                         *)
(* Every thread owns at most one object (or makes one print_line call).    *)
(* Operations that take the output lock are split at the lock acquisition, *)
(* at every stream insertion (operator<<) and at the lock release; the     *)
(* other operations touch only thread-owned state and one read of the      *)
(* external source and are one step each.                                  *)
(***************************************************************************)
EXTENDS Integers, Sequences, FiniteSets, TLC

\* ------------------------------------------------------------------ bounds
NThreads == 2        \* threads using the library concurrently
MaxCalls == 2        \* finish() / done() calls made on one object
MaxTime == 2         \* clock ticks observed
MaxConcDone == 1     \* done() calls per stage timer when threads run concurrently
MaxReports == 3      \* reports started by all threads together under SpecFair

Threads == 1..NThreads
NoThread == 0

\* --------------------------------------------------------------- uint64_t
\* A uint64_t is four 16-bit limbs, least significant first.
U64Base == 65536
U64Limbs == 4

U64(n) == <<n % U64Base, (n \div U64Base) % U64Base, 0, 0>>
Zero64 == U64(0)
Max64 == <<U64Base - 1, U64Base - 1, U64Base - 1, U64Base - 1>>

\* a < b as unsigned 64-bit numbers
Less64(a, b) ==
    \E i \in 1..U64Limbs :
        /\ a[i] < b[i]
        /\ \A j \in (i + 1)..U64Limbs : a[j] = b[j]

RECURSIVE SubLimbs(_, _, _, _)
SubLimbs(a, b, i, borrow) ==
    IF i > U64Limbs THEN <<>>
    ELSE LET diff == a[i] - b[i] - borrow
         IN  <<(diff + U64Base) % U64Base>>
               \o SubLimbs(a, b, i + 1, IF diff < 0 THEN 1 ELSE 0)

RECURSIVE AddLimbs(_, _, _, _)
AddLimbs(a, b, i, carry) ==
    IF i > U64Limbs THEN <<>>
    ELSE LET sum == a[i] + b[i] + carry
         IN  <<sum % U64Base>> \o AddLimbs(a, b, i + 1, sum \div U64Base)

\* a subtraction that gives 0 instead of wrapping around
Sub64_clamped(a, b) == IF Less64(a, b) THEN Zero64 ELSE SubLimbs(a, b, 1, 0)

\* unsigned 64-bit subtraction and addition (wrap modulo 2^64)
Sub64(a, b) == SubLimbs(a, b, 1, 0)
Add64(a, b) == AddLimbs(a, b, 1, 0)

\* struct IOBytesDelta { begin = 0; end = 0; bytes() }
IOBytesDelta(b, e) == [begin |-> b, end |-> e]
ZeroDelta == IOBytesDelta(Zero64, Zero64)
bytes(delta) == Sub64(delta.end, delta.begin)

\* ------------------------------------------------------------ input sets
NullPtr == 0                       \* uint64_t *counter == nullptr
CounterPtrs == {NullPtr, 1}        \* nullptr or &counter[1]
EmptyReader == "empty"             \* std::function with no target
Readers == {EmptyReader, "first", "sum"}
    \* "first": returns counter[1]; "sum": returns counter[1] + counter[2]
Labels == {"", "io"}               \* std::string label
NullStr == "nullptr"               \* const char * == nullptr
CStrings == {NullStr, "t"}         \* const char *label / name
Prefixes == {"", "p"}              \* std::string prefix
Texts == {"line\n"}                \* print_line argument

\* values the application gives to the two externally owned counters
CounterStates ==
    { <<U64(1000), U64(0)>>, <<U64(1049576), U64(0)>>,
      <<U64(500), U64(700)>>, <<U64(900), U64(1300)>>,
      <<Max64, U64(1)>> }

VARIABLES
    enabled,      \* CHEETAH_ENABLE_PERF of the build
    counter,      \* the application's byte counters
    now,          \* the value Clock::now() returns
    mutex,        \* holder of cout_mutex(), NoThread when free
    console,      \* insertions made on std::cout / std::cerr, in order
    obj,          \* obj[t]: the object thread t owns
    pc,           \* pc[t]: "none", "live", "lock", "write", "dead"
    op,           \* op[t]: the locking operation thread t is inside
    part,         \* part[t]: insertions made by that operation so far
    d,            \* d[t]: local IOBytesDelta d of an I/O scope destructor
    s,            \* s[t]: argument of print_line
    reads,        \* reads[t]: counter dereferences / reader invocations
    calls,        \* calls[t]: finish() / done() calls made by thread t
    ret,          \* ret[t]: value returned by the latest finish()
    clockReads,   \* number of Clock::now() calls
    lockAcqs      \* number of cout_mutex() acquisitions

vars == <<enabled, counter, now, mutex, console, obj, pc, op, part, d, s,
          reads, calls, ret, clockReads, lockAcqs>>

\* default member initializers of IOScope / MultiIOScope / ScopedTimer /
\* StageTimer (the fields a class does not have keep these values)
NoObject ==
    [kind |-> "none", counter_ |-> NullPtr, reader_ |-> EmptyReader,
     label |-> "", prefix |-> "", begin_ |-> Zero64, finished_ |-> FALSE,
     last_ |-> ZeroDelta, t0 |-> 0]

Init ==
    /\ enabled \in BOOLEAN
    /\ counter \in CounterStates
    /\ now = 0
    /\ mutex = NoThread
    /\ console = <<>>
    /\ obj = [t \in Threads |-> NoObject]
    /\ pc = [t \in Threads |-> "none"]
    /\ op = [t \in Threads |-> "none"]
    /\ part = [t \in Threads |-> 0]
    /\ d = [t \in Threads |-> ZeroDelta]
    /\ s = [t \in Threads |-> ""]
    /\ reads = [t \in Threads |-> 0]
    /\ calls = [t \in Threads |-> 0]
    /\ ret = [t \in Threads |-> ZeroDelta]
    /\ clockReads = 0
    /\ lockAcqs = 0

\* ------------------------------------------------------------ environment
\* the application stores new values in its counters; it may do so just
\* before any read by a scope, so a read can see any of CounterStates
SetCounters(cs) ==
    /\ cs # counter
    /\ counter' = cs
    /\ UNCHANGED <<enabled, now, mutex, console, obj, pc, op, part, d, s,
                   reads, calls, ret, clockReads, lockAcqs>>

\* time passes
Tick ==
    /\ now < MaxTime
    /\ now' = now + 1
    /\ UNCHANGED <<enabled, counter, mutex, console, obj, pc, op, part, d, s,
                   reads, calls, ret, clockReads, lockAcqs>>

\* ---------------------------------------------------------------- IOScope
\* IOScope(uint64_t *counter, std::string label): the constructed object
\* and the number of counter dereferences made
IOScope_ctor(c, l, ctr, en) ==
    [obj |-> [NoObject EXCEPT !.kind = "IOScope", !.counter_ = c, !.label = l,
                              !.begin_ = IF en /\ c # NullPtr THEN ctr[c]
                                         ELSE Zero64],
     nread |-> IF en /\ c # NullPtr THEN 1 ELSE 0]

\* finish() that does not set finished_
IOScope_finish_unflagged(o, ctr, en) ==
    IF en
    THEN IF o.finished_
         THEN [obj |-> o, ret |-> o.last_, nread |-> 0]
         ELSE LET last == IOBytesDelta(o.begin_,
                              IF o.counter_ # NullPtr THEN ctr[o.counter_]
                              ELSE o.begin_)
              IN  [obj |-> [o EXCEPT !.last_ = last],
                   ret |-> last,
                   nread |-> IF o.counter_ # NullPtr THEN 1 ELSE 0]
    ELSE [obj |-> o, ret |-> ZeroDelta, nread |-> 0]

\* finish() without the finished_ test: every call measures again
IOScope_finish_reread(o, ctr, en) ==
    LET last == IOBytesDelta(o.begin_,
                    IF o.counter_ # NullPtr THEN ctr[o.counter_] ELSE o.begin_)
    IN  IF en
        THEN [obj |-> [o EXCEPT !.last_ = last, !.finished_ = TRUE],
              ret |-> last,
              nread |-> IF o.counter_ # NullPtr THEN 1 ELSE 0]
        ELSE [obj |-> [o EXCEPT !.finished_ = TRUE], ret |-> ZeroDelta,
              nread |-> 0]

\* IOScope::finish(): the object afterwards, the returned delta and the
\* number of counter dereferences made
IOScope_finish(o, ctr, en) ==
    IF en
    THEN IF o.finished_
         THEN [obj |-> o, ret |-> o.last_, nread |-> 0]
         ELSE LET last == IOBytesDelta(o.begin_,
                              IF o.counter_ # NullPtr THEN ctr[o.counter_]
                              ELSE o.begin_)
              IN  [obj |-> [o EXCEPT !.last_ = last, !.finished_ = TRUE],
                   ret |-> last,
                   nread |-> IF o.counter_ # NullPtr THEN 1 ELSE 0]
    ELSE [obj |-> [o EXCEPT !.finished_ = TRUE], ret |-> ZeroDelta, nread |-> 0]

\* ~IOScope() without the label test
IOScope_dtor_reports_unlabelled(o, en) ==
    en /\ ~o.finished_ /\ o.counter_ # NullPtr

\* the condition under which ~IOScope() reports
IOScope_dtor_reports(o, en) ==
    en /\ ~o.finished_ /\ o.counter_ # NullPtr /\ o.label # ""

\* the destructor's delta with its two members exchanged
IOScope_dtor_delta_swapped(o, ctr) == IOBytesDelta(ctr[o.counter_], o.begin_)

\* IOBytesDelta d{begin_, *counter_} of ~IOScope()
IOScope_dtor_delta(o, ctr) == IOBytesDelta(o.begin_, ctr[o.counter_])

IOScopeCtor(t, c, l) ==
    /\ pc[t] = "none"
    /\ LET r == IOScope_ctor(c, l, counter, enabled)
       IN  /\ obj' = [obj EXCEPT ![t] = r.obj]
           /\ reads' = [reads EXCEPT ![t] = @ + r.nread]
    /\ pc' = [pc EXCEPT ![t] = "live"]
    /\ UNCHANGED <<enabled, counter, now, mutex, console, op, part, d, s,
                   calls, ret, clockReads, lockAcqs>>

\* IOScope() = default
IOScopeDefault(t) ==
    /\ pc[t] = "none"
    /\ obj' = [obj EXCEPT ![t] = [NoObject EXCEPT !.kind = "IOScope"]]
    /\ pc' = [pc EXCEPT ![t] = "live"]
    /\ UNCHANGED <<enabled, counter, now, mutex, console, op, part, d, s,
                   reads, calls, ret, clockReads, lockAcqs>>

IOScopeFinish(t) ==
    /\ pc[t] = "live"
    /\ obj[t].kind = "IOScope"
    /\ calls[t] < MaxCalls
    /\ LET r == IOScope_finish(obj[t], counter, enabled)
       IN  /\ obj' = [obj EXCEPT ![t] = r.obj]
           /\ ret' = [ret EXCEPT ![t] = r.ret]
           /\ reads' = [reads EXCEPT ![t] = @ + r.nread]
    /\ calls' = [calls EXCEPT ![t] = @ + 1]
    /\ UNCHANGED <<enabled, counter, now, mutex, console, pc, op, part, d, s,
                   clockReads, lockAcqs>>

\* ~IOScope() up to the lock acquisition
IOScopeDtor(t) ==
    /\ pc[t] = "live"
    /\ obj[t].kind = "IOScope"
    /\ IF IOScope_dtor_reports(obj[t], enabled)
       THEN /\ d' = [d EXCEPT ![t] = IOScope_dtor_delta(obj[t], counter)]
            /\ reads' = [reads EXCEPT ![t] = @ + 1]
            /\ pc' = [pc EXCEPT ![t] = "lock"]
            /\ op' = [op EXCEPT ![t] = "io_dtor"]
       ELSE /\ pc' = [pc EXCEPT ![t] = "dead"]
            /\ UNCHANGED <<d, reads, op>>
    /\ UNCHANGED <<enabled, counter, now, mutex, console, obj, part, s,
                   calls, ret, clockReads, lockAcqs>>

\* ----------------------------------------------------------- MultiIOScope
\* invoking a non-empty Reader: the first counter, or the sum of the counters
Reader_call(r, ctr) == IF r = "first" THEN ctr[1] ELSE Add64(ctr[1], ctr[2])

\* the constructor without the "if (reader_)" test
MultiIOScope_ctor_unchecked(r, l, ctr, en) ==
    [obj |-> [NoObject EXCEPT !.kind = "MultiIOScope", !.reader_ = r,
                              !.label = l,
                              !.begin_ = IF en THEN Reader_call(r, ctr)
                                         ELSE Zero64],
     nread |-> IF en THEN 1 ELSE 0]

\* MultiIOScope(Reader reader, std::string label)
MultiIOScope_ctor(r, l, ctr, en) ==
    [obj |-> [NoObject EXCEPT !.kind = "MultiIOScope", !.reader_ = r,
                              !.label = l,
                              !.begin_ = IF en /\ r # EmptyReader
                                         THEN Reader_call(r, ctr)
                                         ELSE Zero64],
     nread |-> IF en /\ r # EmptyReader THEN 1 ELSE 0]

\* finish() without the finished_ test: every call invokes the reader
MultiIOScope_finish_reread(o, ctr, en) ==
    IF en
    THEN LET last == IOBytesDelta(o.begin_,
                         IF o.reader_ # EmptyReader
                         THEN Reader_call(o.reader_, ctr)
                         ELSE o.begin_)
         IN  [obj |-> [o EXCEPT !.last_ = last, !.finished_ = TRUE],
              ret |-> last,
              nread |-> IF o.reader_ # EmptyReader THEN 1 ELSE 0]
    ELSE [obj |-> [o EXCEPT !.finished_ = TRUE], ret |-> ZeroDelta, nread |-> 0]

\* finish() that takes the end of the delta from the begin snapshot
MultiIOScope_finish_stale(o, ctr, en) ==
    IF en
    THEN IF o.finished_
         THEN [obj |-> o, ret |-> o.last_, nread |-> 0]
         ELSE LET last == IOBytesDelta(o.begin_, o.begin_)
              IN  [obj |-> [o EXCEPT !.last_ = last, !.finished_ = TRUE],
                   ret |-> last, nread |-> 0]
    ELSE [obj |-> [o EXCEPT !.finished_ = TRUE], ret |-> ZeroDelta, nread |-> 0]

\* finish() that measures in the disabled build as well
MultiIOScope_finish_always(o, ctr, en) ==
    IF o.finished_
    THEN [obj |-> o, ret |-> o.last_, nread |-> 0]
    ELSE LET last == IOBytesDelta(o.begin_,
                         IF o.reader_ # EmptyReader
                         THEN Reader_call(o.reader_, ctr)
                         ELSE o.begin_)
         IN  [obj |-> [o EXCEPT !.last_ = last, !.finished_ = TRUE],
              ret |-> last,
              nread |-> IF o.reader_ # EmptyReader THEN 1 ELSE 0]

\* MultiIOScope::finish()
MultiIOScope_finish(o, ctr, en) ==
    IF en
    THEN IF o.finished_
         THEN [obj |-> o, ret |-> o.last_, nread |-> 0]
         ELSE LET last == IOBytesDelta(o.begin_,
                              IF o.reader_ # EmptyReader
                              THEN Reader_call(o.reader_, ctr)
                              ELSE o.begin_)
              IN  [obj |-> [o EXCEPT !.last_ = last, !.finished_ = TRUE],
                   ret |-> last,
                   nread |-> IF o.reader_ # EmptyReader THEN 1 ELSE 0]
    ELSE [obj |-> [o EXCEPT !.finished_ = TRUE], ret |-> ZeroDelta, nread |-> 0]

\* ~MultiIOScope() without the finished_ test
MultiIOScope_dtor_reports_unflagged(o, en) ==
    en /\ o.reader_ # EmptyReader /\ o.label # ""

\* the condition under which ~MultiIOScope() reports
MultiIOScope_dtor_reports(o, en) ==
    en /\ ~o.finished_ /\ o.reader_ # EmptyReader /\ o.label # ""

\* the destructor's delta taken from 0 instead of the begin snapshot
MultiIOScope_dtor_delta_fromzero(o, ctr) ==
    IOBytesDelta(Zero64, Reader_call(o.reader_, ctr))

\* IOBytesDelta d{begin_, reader_()} of ~MultiIOScope()
MultiIOScope_dtor_delta(o, ctr) ==
    IOBytesDelta(o.begin_, Reader_call(o.reader_, ctr))

MultiIOScopeCtor(t, r, l) ==
    /\ pc[t] = "none"
    /\ LET c == MultiIOScope_ctor(r, l, counter, enabled)
       IN  /\ obj' = [obj EXCEPT ![t] = c.obj]
           /\ reads' = [reads EXCEPT ![t] = @ + c.nread]
    /\ pc' = [pc EXCEPT ![t] = "live"]
    /\ UNCHANGED <<enabled, counter, now, mutex, console, op, part, d, s,
                   calls, ret, clockReads, lockAcqs>>

\* MultiIOScope() = default
MultiIOScopeDefault(t) ==
    /\ pc[t] = "none"
    /\ obj' = [obj EXCEPT ![t] = [NoObject EXCEPT !.kind = "MultiIOScope"]]
    /\ pc' = [pc EXCEPT ![t] = "live"]
    /\ UNCHANGED <<enabled, counter, now, mutex, console, op, part, d, s,
                   reads, calls, ret, clockReads, lockAcqs>>

MultiIOScopeFinish(t) ==
    /\ pc[t] = "live"
    /\ obj[t].kind = "MultiIOScope"
    /\ calls[t] < MaxCalls
    /\ LET r == MultiIOScope_finish(obj[t], counter, enabled)
       IN  /\ obj' = [obj EXCEPT ![t] = r.obj]
           /\ ret' = [ret EXCEPT ![t] = r.ret]
           /\ reads' = [reads EXCEPT ![t] = @ + r.nread]
    /\ calls' = [calls EXCEPT ![t] = @ + 1]
    /\ UNCHANGED <<enabled, counter, now, mutex, console, pc, op, part, d, s,
                   clockReads, lockAcqs>>

\* a destructor that takes the lock before it invokes the reader
MultiIOScopeDtor_locked(t) ==
    /\ pc[t] = "live"
    /\ obj[t].kind = "MultiIOScope"
    /\ IF MultiIOScope_dtor_reports(obj[t], enabled)
       THEN /\ mutex = NoThread
            /\ mutex' = t
            /\ lockAcqs' = lockAcqs + 1
            /\ d' = [d EXCEPT ![t] = MultiIOScope_dtor_delta(obj[t], counter)]
            /\ reads' = [reads EXCEPT ![t] = @ + 1]
            /\ pc' = [pc EXCEPT ![t] = "write"]
            /\ op' = [op EXCEPT ![t] = "mio_dtor"]
       ELSE /\ pc' = [pc EXCEPT ![t] = "dead"]
            /\ UNCHANGED <<d, reads, op, mutex, lockAcqs>>
    /\ UNCHANGED <<enabled, counter, now, console, obj, part, s,
                   calls, ret, clockReads>>

\* ~MultiIOScope() up to the lock acquisition
MultiIOScopeDtor(t) ==
    /\ pc[t] = "live"
    /\ obj[t].kind = "MultiIOScope"
    /\ IF MultiIOScope_dtor_reports(obj[t], enabled)
       THEN /\ d' = [d EXCEPT ![t] = MultiIOScope_dtor_delta(obj[t], counter)]
            /\ reads' = [reads EXCEPT ![t] = @ + 1]
            /\ pc' = [pc EXCEPT ![t] = "lock"]
            /\ op' = [op EXCEPT ![t] = "mio_dtor"]
       ELSE /\ pc' = [pc EXCEPT ![t] = "dead"]
            /\ UNCHANGED <<d, reads, op>>
    /\ UNCHANGED <<enabled, counter, now, mutex, console, obj, part, s,
                   calls, ret, clockReads, lockAcqs>>

\* ------------------------------------------------------ clock and console
\* ms_since(start), given the value Clock::now() returns
ms_since(start, clock, en) == IF en THEN clock - start ELSE 0

\* (p ? p : "") for a const char *p
CStr(p) == IF p = NullStr THEN "" ELSE p

Ins(strm, txt, n) == [stream |-> strm, text |-> txt, num |-> n]

\* the stream insertions of each locking operation, in order, for the
\* object o, destructor delta dl, print_line argument str and clock value.
\* A number is inserted as text "bytes", "mib" or "ms" with the value in
\* num (for "mib" the byte count the quotient is taken of); std::left and
\* std::setw(28) insert nothing.
Insertions(o, dl, str, clock, en, operation) ==
    CASE operation = "print_line" ->
           << Ins("cout", str, <<>>) >>
      [] operation \in {"io_dtor", "mio_dtor"} ->
           << Ins("cerr", "[io] ", <<>>),
              Ins("cerr", o.label, <<>>),
              Ins("cerr", ": ", <<>>),
              Ins("cerr", "bytes", bytes(dl)),
              Ins("cerr", " B (", <<>>),
              Ins("cerr", "mib", bytes(dl)),
              Ins("cerr", " MiB)\n", <<>>) >>
      [] operation = "st_dtor" ->
           << Ins("cout", "  [time] ", <<>>),
              Ins("cout", CStr(o.label), <<>>),
              Ins("cout", "ms", <<ms_since(o.t0, clock, en)>>),
              Ins("cout", " ms\n", <<>>) >>
      [] operation = "stage_ctor" ->
           << Ins("cout", "\n", <<>>),
              Ins("cout", o.prefix, <<>>),
              Ins("cout", IF o.prefix = "" THEN "" ELSE " ", <<>>),
              Ins("cout", CStr(o.label), <<>>),
              Ins("cout", "\n", <<>>) >>
      [] operation = "stage_done" ->
           << Ins("cout", "  [time] ", <<>>),
              Ins("cout", "TOTAL", <<>>),
              Ins("cout", "ms", <<ms_since(o.t0, clock, en)>>),
              Ins("cout", " ms\n", <<>>) >>

\* number of insertions of an operation
NParts(operation) ==
    CASE operation = "print_line" -> 1
      [] operation \in {"io_dtor", "mio_dtor"} -> 7
      [] operation \in {"st_dtor", "stage_done"} -> 4
      [] operation = "stage_ctor" -> 5

\* the insertions that call ms_since, which reads the clock; the operands of
\* a chain of << are evaluated left to right, so the clock is read after the
\* insertions before it have been made
ReadsClock(operation, k) == operation \in {"st_dtor", "stage_done"} /\ k = 3

\* where the thread is once the operation has returned
AfterOp(operation) ==
    IF operation \in {"stage_ctor", "stage_done"} THEN "live" ELSE "dead"

\* a lock that never makes its caller wait
LockFree_always(m) == TRUE

\* std::mutex::lock() can return
LockFree(m) == m = NoThread

\* an operation that writes without a lock_guard
Acquire_nolock(t) ==
    /\ pc[t] = "lock"
    /\ pc' = [pc EXCEPT ![t] = "write"]
    /\ part' = [part EXCEPT ![t] = 0]
    /\ UNCHANGED <<enabled, counter, now, mutex, console, obj, op, d, s,
                   reads, calls, ret, clockReads, lockAcqs>>

\* std::lock_guard<std::mutex> lk(cout_mutex());
Acquire(t) ==
    /\ pc[t] = "lock"
    /\ LockFree(mutex)
    /\ mutex' = t
    /\ pc' = [pc EXCEPT ![t] = "write"]
    /\ part' = [part EXCEPT ![t] = 0]
    /\ lockAcqs' = lockAcqs + 1
    /\ UNCHANGED <<enabled, counter, now, console, obj, op, d, s,
                   reads, calls, ret, clockReads>>

\* one operator<< of the statement that writes the report
Insert(t) ==
    /\ pc[t] = "write"
    /\ part[t] < NParts(op[t])
    /\ LET k == part[t] + 1
           i == Insertions(obj[t], d[t], s[t], now, enabled, op[t])[k]
       IN  /\ console' = Append(console,
                  [who |-> t, op |-> op[t], part |-> k, stream |-> i.stream,
                   text |-> i.text, num |-> i.num])
           /\ part' = [part EXCEPT ![t] = k]
           /\ clockReads' = IF ReadsClock(op[t], k) THEN clockReads + 1
                            ELSE clockReads
    /\ UNCHANGED <<enabled, counter, now, mutex, obj, pc, op, d, s,
                   reads, calls, ret, lockAcqs>>

\* an operation that returns without unlocking the mutex
Release_keeps(t) ==
    /\ pc[t] = "write"
    /\ part[t] = NParts(op[t])
    /\ pc' = [pc EXCEPT ![t] = AfterOp(op[t])]
    /\ op' = [op EXCEPT ![t] = "none"]
    /\ part' = [part EXCEPT ![t] = 0]
    /\ UNCHANGED <<enabled, counter, now, mutex, console, obj, d, s,
                   reads, calls, ret, clockReads, lockAcqs>>

\* ~lock_guard() at the end of the block, then the operation returns
Release(t) ==
    /\ pc[t] = "write"
    /\ part[t] = NParts(op[t])
    /\ mutex' = NoThread
    /\ pc' = [pc EXCEPT ![t] = AfterOp(op[t])]
    /\ op' = [op EXCEPT ![t] = "none"]
    /\ part' = [part EXCEPT ![t] = 0]
    /\ UNCHANGED <<enabled, counter, now, console, obj, d, s,
                   reads, calls, ret, clockReads, lockAcqs>>

\* print_line without the CHEETAH_ENABLE_PERF test
PrintLine_unguarded(t, str) ==
    /\ pc[t] = "none"
    /\ pc' = [pc EXCEPT ![t] = "lock"]
    /\ op' = [op EXCEPT ![t] = "print_line"]
    /\ s' = [s EXCEPT ![t] = str]
    /\ UNCHANGED <<enabled, counter, now, mutex, console, obj, part, d,
                   reads, calls, ret, clockReads, lockAcqs>>

\* print_line(s)
PrintLine(t, str) ==
    /\ pc[t] = "none"
    /\ IF enabled
       THEN /\ pc' = [pc EXCEPT ![t] = "lock"]
            /\ op' = [op EXCEPT ![t] = "print_line"]
            /\ s' = [s EXCEPT ![t] = str]
       ELSE /\ pc' = [pc EXCEPT ![t] = "dead"]
            /\ UNCHANGED <<op, s>>
    /\ UNCHANGED <<enabled, counter, now, mutex, console, obj, part, d,
                   reads, calls, ret, clockReads, lockAcqs>>

\* ------------------------------------------------------------ ScopedTimer
\* explicit ScopedTimer(const char *lbl)
ScopedTimerCtor(t, lbl) ==
    /\ pc[t] = "none"
    /\ obj' = [obj EXCEPT ![t] =
                 [NoObject EXCEPT !.kind = "ScopedTimer", !.label = lbl,
                                  !.t0 = IF enabled THEN now ELSE 0]]
    /\ clockReads' = IF enabled THEN clockReads + 1 ELSE clockReads
    /\ pc' = [pc EXCEPT ![t] = "live"]
    /\ UNCHANGED <<enabled, counter, now, mutex, console, op, part, d, s,
                   reads, calls, ret, lockAcqs>>

\* a destructor that returns without reporting
ScopedTimerDtor_silent(t) ==
    /\ pc[t] = "live"
    /\ obj[t].kind = "ScopedTimer"
    /\ pc' = [pc EXCEPT ![t] = "dead"]
    /\ UNCHANGED <<enabled, counter, now, mutex, console, obj, op, part, d, s,
                   reads, calls, ret, clockReads, lockAcqs>>

\* ~ScopedTimer() up to the lock acquisition
ScopedTimerDtor(t) ==
    /\ pc[t] = "live"
    /\ obj[t].kind = "ScopedTimer"
    /\ IF enabled
       THEN /\ pc' = [pc EXCEPT ![t] = "lock"]
            /\ op' = [op EXCEPT ![t] = "st_dtor"]
       ELSE /\ pc' = [pc EXCEPT ![t] = "dead"]
            /\ UNCHANGED op
    /\ UNCHANGED <<enabled, counter, now, mutex, console, obj, part, d, s,
                   reads, calls, ret, clockReads, lockAcqs>>

\* ------------------------------------------------------------- StageTimer
\* StageTimer(const char *n, std::string pref) up to the lock acquisition
StageTimerCtor(t, n, pref) ==
    /\ pc[t] = "none"
    /\ obj' = [obj EXCEPT ![t] =
                 [NoObject EXCEPT !.kind = "StageTimer", !.label = n,
                                  !.prefix = pref,
                                  !.t0 = IF enabled THEN now ELSE 0]]
    /\ clockReads' = IF enabled THEN clockReads + 1 ELSE clockReads
    /\ IF enabled
       THEN /\ pc' = [pc EXCEPT ![t] = "lock"]
            /\ op' = [op EXCEPT ![t] = "stage_ctor"]
       ELSE /\ pc' = [pc EXCEPT ![t] = "live"]
            /\ UNCHANGED op
    /\ UNCHANGED <<enabled, counter, now, mutex, console, part, d, s,
                   reads, calls, ret, lockAcqs>>

\* the operation StageTimer::done() starts, "none" when it does nothing
StageTimer_done(en) == IF en THEN "stage_done" ELSE "none"

\* a done() that starts the measurement again
StageTimerDone_restart(t) ==
    /\ pc[t] = "live"
    /\ obj[t].kind = "StageTimer"
    /\ calls[t] < MaxCalls
    /\ calls' = [calls EXCEPT ![t] = @ + 1]
    /\ obj' = [obj EXCEPT ![t].t0 = now]
    /\ LET o == StageTimer_done(enabled)
       IN  IF o # "none"
           THEN /\ pc' = [pc EXCEPT ![t] = "lock"]
                /\ op' = [op EXCEPT ![t] = o]
           ELSE UNCHANGED <<pc, op>>
    /\ UNCHANGED <<enabled, counter, now, mutex, console, part, d, s,
                   reads, ret, clockReads, lockAcqs>>

\* StageTimer::done() up to the lock acquisition
StageTimerDone(t) ==
    /\ pc[t] = "live"
    /\ obj[t].kind = "StageTimer"
    /\ calls[t] < MaxCalls
    /\ calls' = [calls EXCEPT ![t] = @ + 1]
    /\ LET o == StageTimer_done(enabled)
       IN  IF o # "none"
           THEN /\ pc' = [pc EXCEPT ![t] = "lock"]
                /\ op' = [op EXCEPT ![t] = o]
           ELSE UNCHANGED <<pc, op>>
    /\ UNCHANGED <<enabled, counter, now, mutex, console, obj, part, d, s,
                   reads, ret, clockReads, lockAcqs>>

\* a destructor that prints the TOTAL line when done() was never called
StageTimer_dtor_reports(o, en) ==
    IF en /\ Len(SelectSeq(console, LAMBDA c : c.op = "stage_done")) = 0
    THEN "stage_done" ELSE "none"

\* the operation ~StageTimer() starts: the implicit destructor does nothing
StageTimer_dtor(o, en) == "none"

\* ~StageTimer()
StageTimerDtor(t) ==
    /\ pc[t] = "live"
    /\ obj[t].kind = "StageTimer"
    /\ LET o == StageTimer_dtor(obj[t], enabled)
       IN  IF o # "none"
           THEN /\ pc' = [pc EXCEPT ![t] = "lock"]
                /\ op' = [op EXCEPT ![t] = o]
           ELSE /\ pc' = [pc EXCEPT ![t] = "dead"]
                /\ UNCHANGED op
    /\ UNCHANGED <<enabled, counter, now, mutex, console, obj, part, d, s,
                   reads, calls, ret, clockReads, lockAcqs>>

\* ---------------------------------------------------------- specification
\* the operations on objects, over all their arguments
ScopeStep(t) ==
    \/ \E c \in CounterPtrs, l \in Labels : IOScopeCtor(t, c, l)
    \/ IOScopeDefault(t)
    \/ IOScopeFinish(t)
    \/ IOScopeDtor(t)
    \/ \E r \in Readers, l \in Labels : MultiIOScopeCtor(t, r, l)
    \/ MultiIOScopeDefault(t)
    \/ MultiIOScopeFinish(t)
    \/ MultiIOScopeDtor(t)
    \/ \E str \in Texts : PrintLine(t, str)
    \/ \E lbl \in CStrings : ScopedTimerCtor(t, lbl)
    \/ ScopedTimerDtor(t)
    \/ \E n \in CStrings, pref \in Prefixes : StageTimerCtor(t, n, pref)
    \/ StageTimerDone(t)
    \/ StageTimerDtor(t)

\* the steps of an operation that reports
LockStep(t) ==
    \/ Acquire(t)
    \/ Insert(t)
    \/ Release(t)

\* One thread, every argument, counters and clock changing at any moment.
Main == 1

Next ==
    \/ \E cs \in CounterStates : SetCounters(cs)
    \/ Tick
    \/ ScopeStep(Main)
    \/ LockStep(Main)

Spec == Init /\ [][Next]_vars

\* All threads, each reporting through one of the five reporting
\* operations, with labelled scopes on valid sources in the enabled build,
\* while the counters and the clock stand still.
InitConc ==
    /\ Init
    /\ enabled
    /\ counter = <<U64(1000), U64(0)>>

ReportStep(t) ==
    \/ IOScopeCtor(t, 1, "io")
    \/ IOScopeDtor(t)
    \/ MultiIOScopeCtor(t, "sum", "io")
    \/ MultiIOScopeDtor(t)
    \/ PrintLine(t, "line\n")
    \/ ScopedTimerCtor(t, "t")
    \/ ScopedTimerDtor(t)
    \/ StageTimerCtor(t, "t", "p")
    \/ calls[t] < MaxConcDone /\ StageTimerDone(t)
    \/ StageTimerDtor(t)

NextConc ==
    \/ \E t \in Threads : ReportStep(t) \/ LockStep(t)

SpecConc == InitConc /\ [][NextConc]_vars

\* The concurrent threads with a fair lock: a thread that keeps waiting for
\* the mutex while it is free again and again gets it, and a thread inside
\* an operation keeps running.  The threads start MaxReports reporting
\* operations together.
ReportsStarted == lockAcqs + Cardinality({t \in Threads : pc[t] = "lock"})

FairStep(t) ==
    \/ IOScopeCtor(t, 1, "io")
    \/ MultiIOScopeCtor(t, "sum", "io")
    \/ ScopedTimerCtor(t, "t")
    \/ ReportsStarted < MaxReports /\ IOScopeDtor(t)
    \/ ReportsStarted < MaxReports /\ MultiIOScopeDtor(t)
    \/ ReportsStarted < MaxReports /\ PrintLine(t, "line\n")
    \/ ReportsStarted < MaxReports /\ ScopedTimerDtor(t)
    \/ ReportsStarted < MaxReports /\ StageTimerCtor(t, "t", "p")
    \/ ReportsStarted < MaxReports /\ StageTimerDone(t)
    \/ StageTimerDtor(t)

NextFair == \E t \in Threads : FairStep(t) \/ LockStep(t)

SpecFair ==
    /\ InitConc
    /\ [][NextFair]_vars
    /\ \A t \in Threads :
          /\ SF_vars(Acquire(t))
          /\ WF_vars(Insert(t))
          /\ WF_vars(Release(t))

\* Concurrent threads that use the two timers while time passes; they start
\* MaxReports reporting operations together.
TimerStep(t) ==
    \/ ScopedTimerCtor(t, "t")
    \/ ReportsStarted < MaxReports /\ ScopedTimerDtor(t)
    \/ ReportsStarted < MaxReports /\ StageTimerCtor(t, "t", "p")
    \/ ReportsStarted < MaxReports /\ StageTimerDone(t)
    \/ StageTimerDtor(t)

NextTimers ==
    \/ Tick
    \/ \E t \in Threads : TimerStep(t) \/ LockStep(t)

SpecTimers == InitConc /\ [][NextTimers]_vars

\* An IOScope (thread Single) and a MultiIOScope (thread Aggregated) driven
\* by the same operations: the aggregated scope is constructed with the
\* accessor that corresponds to the single scope's pointer and the same
\* label, and then repeats every operation made on the single scope before
\* the next operation or counter update happens.
Single == 1
Aggregated == 2

\* the accessor that returns what the pointer c points at
ReaderFor(c) == IF c = NullPtr THEN EmptyReader ELSE "first"

\* both scopes have been through the same operations
InSync ==
    /\ pc[Single] = pc[Aggregated]
    /\ pc[Single] \in {"none", "live", "dead"}
    /\ calls[Single] = calls[Aggregated]

NextPair ==
    \/ \E cs \in CounterStates : InSync /\ SetCounters(cs)
    \/ \E c \in CounterPtrs, l \in Labels : InSync /\ IOScopeCtor(Single, c, l)
    \/ InSync /\ IOScopeDefault(Single)
    \/ /\ pc[Single] = "live"
       /\ MultiIOScopeCtor(Aggregated, ReaderFor(obj[Single].counter_),
                           obj[Single].label)
    \/ /\ pc[Single] = "live"
       /\ obj[Single].counter_ = NullPtr /\ obj[Single].label = ""
       /\ MultiIOScopeDefault(Aggregated)
    \/ InSync /\ IOScopeFinish(Single)
    \/ calls[Aggregated] < calls[Single] /\ MultiIOScopeFinish(Aggregated)
    \/ InSync /\ IOScopeDtor(Single)
    \/ /\ pc[Single] = "dead"
       /\ calls[Aggregated] = calls[Single]
       /\ MultiIOScopeDtor(Aggregated)
    \/ LockStep(Single)
    \/ LockStep(Aggregated)

SpecPair == Init /\ [][NextPair]_vars

\* ================================================================ claims
IOKinds == {"IOScope", "MultiIOScope"}

\* thread t's object is an I/O scope with a counter / a non-empty accessor
HasSource(t) ==
    \/ obj[t].kind = "IOScope" /\ obj[t].counter_ # NullPtr
    \/ obj[t].kind = "MultiIOScope" /\ obj[t].reader_ # EmptyReader

\* the value that source has while the counters hold ctr
SourceValue(t, ctr) ==
    IF obj[t].kind = "IOScope" THEN ctr[obj[t].counter_]
    ELSE IF obj[t].reader_ = "first" THEN ctr[1]
    ELSE Add64(ctr[1], ctr[2])

\* positions in the console of the insertions thread t made
ChunksBy(t) == {i \in DOMAIN console : console[i].who = t}

\* the reports of one operation that thread t has started / completed
Started(t, operation) ==
    {i \in ChunksBy(t) : console[i].op = operation /\ console[i].part = 1}
Completed(t, operation) ==
    {i \in ChunksBy(t) : /\ console[i].op = operation
                         /\ console[i].part = NParts(operation)}

\* thread t is not inside an operation
Quiet(t) == pc[t] \in {"none", "live", "dead"}

\* a step that is a finish() call by thread t
FinishCall(t) == obj[t].kind \in IOKinds /\ calls'[t] = calls[t] + 1

\* a step in which thread t's I/O scope is destroyed
ScopeDestroyed(t) ==
    obj[t].kind \in IOKinds /\ pc[t] = "live" /\ pc'[t] # "live"

\* C1: in the enabled build every finish() call after the first returns the
\* delta the previous call returned, so all calls on one scope return the
\* delta of the first call, however the source moved in between.
C1_FinishIdempotent ==
    [][\A t \in Threads :
          (enabled /\ FinishCall(t) /\ calls[t] >= 1) => ret'[t] = ret[t]]_vars

\* a second finish() has returned and the source no longer has the cached end
C1_Witness ==
    \E t \in Threads :
        /\ enabled /\ obj[t].kind = "IOScope" /\ obj[t].counter_ # NullPtr
        /\ calls[t] >= 2
        /\ counter[obj[t].counter_] # ret[t].end

\* C2: once finish() has been called on an I/O scope, the scope never
\* reports (no insertion by its thread, no locking operation started) and
\* its destruction reads no source and writes nothing.
C2_NoReportAfterFinish ==
    /\ [](\A t \in Threads :
            (obj[t].kind \in IOKinds /\ calls[t] >= 1)
                => (ChunksBy(t) = {} /\ Quiet(t)))
    /\ [][\A t \in Threads :
            (ScopeDestroyed(t) /\ calls[t] >= 1)
                => (/\ pc'[t] = "dead"
                    /\ reads'[t] = reads[t]
                    /\ console' = console)]_vars

\* a labelled scope on a valid source, finished and then destroyed
C2_Witness ==
    \E t \in Threads :
        /\ enabled /\ obj[t].kind \in IOKinds /\ HasSource(t)
        /\ obj[t].label # "" /\ calls[t] >= 1 /\ pc[t] = "dead"
        /\ SourceValue(t, counter) # ret[t].end

\* the I/O scope of thread t must report at destruction
MustReport(t) ==
    /\ enabled /\ obj[t].kind \in IOKinds /\ HasSource(t)
    /\ obj[t].label # "" /\ calls[t] = 0

\* C3: an unfinished, labelled I/O scope on a valid source takes, when it
\* is destroyed, the delta from its begin snapshot to the source value of
\* that moment, and once destroyed it has emitted exactly one report, of
\* seven insertions, whose byte count is that delta's difference.
C3_ImplicitReport ==
    /\ [][\A t \in Threads :
            (ScopeDestroyed(t) /\ MustReport(t))
                => (/\ pc'[t] = "lock"
                    /\ d'[t] = [begin |-> obj[t].begin_,
                                end |-> SourceValue(t, counter)])]_vars
    /\ [](\A t \in Threads :
            (MustReport(t) /\ pc[t] = "dead")
                => (/\ Cardinality(ChunksBy(t)) = 7
                    /\ \A i \in ChunksBy(t) :
                          /\ console[i].op \in {"io_dtor", "mio_dtor"}
                          /\ console[i].part = 4
                               => console[i].num = Sub64(d[t].end, d[t].begin)
                    /\ \A k \in 1..7 :
                          \E i \in ChunksBy(t) : console[i].part = k))

\* such a scope has been destroyed and its source had moved since construction
C3_Witness ==
    \E t \in Threads :
        /\ MustReport(t) /\ pc[t] = "dead"
        /\ d[t].end # obj[t].begin_

\* C4: an I/O scope with an empty label never reports: its thread makes no
\* insertion and starts no locking operation, whatever the source, the
\* build and the finish() calls.
C4_NoLabelNoReport ==
    \A t \in Threads :
        (obj[t].kind \in IOKinds /\ obj[t].label = "")
            => (ChunksBy(t) = {} /\ Quiet(t))

\* an unlabelled, unfinished scope on a valid source has been destroyed
C4_Witness ==
    \E t \in Threads :
        /\ enabled /\ obj[t].kind \in IOKinds /\ HasSource(t)
        /\ obj[t].label = "" /\ calls[t] = 0 /\ pc[t] = "dead"

\* C5: at most one thread is inside a console write; the insertions of one
\* report are adjacent in the console, in order, and a report begins only
\* after the report before it is complete; when no thread is writing, the
\* console holds one complete report per lock acquisition.
C5_ReportsNotInterleaved ==
    /\ Cardinality({t \in Threads : pc[t] = "write"}) <= 1
    /\ \A i \in DOMAIN console :
          IF console[i].part > 1
          THEN /\ i > 1
               /\ console[i - 1].who = console[i].who
               /\ console[i - 1].op = console[i].op
               /\ console[i - 1].part = console[i].part - 1
          ELSE i > 1 => console[i - 1].part = NParts(console[i - 1].op)
    /\ (\A t \in Threads : pc[t] # "write")
          => /\ Cardinality({i \in DOMAIN console :
                    console[i].part = NParts(console[i].op)}) = lockAcqs
             /\ Cardinality({i \in DOMAIN console : console[i].part = 1})
                    = lockAcqs

\* every thread has emitted a report, and they came from different operations
C5_Witness ==
    /\ \A t \in Threads : pc[t] = "dead" /\ ChunksBy(t) # {}
    /\ \E i, j \in DOMAIN console : console[i].stream # console[j].stream

\* C6: the constructor of an I/O scope with a valid source takes the begin
\* snapshot from the source, and the first finish() returns that snapshot
\* with the source value of the moment of the call; so a counter going
\* 1000 -> 1049576 gives 1048576 bytes and two counters going
\* (500, 700) -> (900, 1300) under a summing accessor give 1000 bytes.
C6_FirstFinishDelta ==
    [][\A t \in Threads :
          /\ (enabled /\ pc[t] = "none" /\ obj'[t].kind \in IOKinds
                /\ (obj'[t].counter_ # NullPtr \/ obj'[t].reader_ # EmptyReader))
               => /\ obj'[t].begin_ =
                        (IF obj'[t].kind = "IOScope"
                         THEN counter[obj'[t].counter_]
                         ELSE IF obj'[t].reader_ = "first" THEN counter[1]
                         ELSE Add64(counter[1], counter[2]))
                  /\ (obj'[t].kind = "MultiIOScope" /\ obj'[t].reader_ = "sum"
                        /\ counter = <<U64(500), U64(700)>>)
                       => obj'[t].begin_ = U64(1200)
          /\ (enabled /\ FinishCall(t) /\ calls[t] = 0 /\ HasSource(t))
               => /\ ret'[t] = [begin |-> obj[t].begin_,
                                end |-> SourceValue(t, counter)]
                  /\ (obj[t].kind = "IOScope" /\ obj[t].begin_ = U64(1000)
                        /\ counter[obj[t].counter_] = U64(1049576))
                       => bytes(ret'[t]) = U64(1048576)
                  /\ (obj[t].kind = "MultiIOScope" /\ obj[t].reader_ = "sum"
                        /\ obj[t].begin_ = U64(1200)
                        /\ counter = <<U64(900), U64(1300)>>)
                       => bytes(ret'[t]) = U64(1000)]_vars

\* the accessor scenario has happened: 1200 at construction, 2200 at finish()
C6_Witness ==
    \E t \in Threads :
        /\ enabled /\ obj[t].kind = "MultiIOScope" /\ obj[t].reader_ = "sum"
        /\ calls[t] >= 1
        /\ ret[t] = [begin |-> U64(1200), end |-> U64(2200)]

\* C7: an I/O scope without a source has begin snapshot 0, never reads a
\* source, returns deltas of 0 bytes from finish() and never reports.
C7_NoSourceNoOp ==
    \A t \in Threads :
        (obj[t].kind \in IOKinds /\ ~HasSource(t))
            => /\ obj[t].begin_ = Zero64
               /\ reads[t] = 0
               /\ calls[t] >= 1 => bytes(ret[t]) = Zero64
               /\ ChunksBy(t) = {}
               /\ Quiet(t)

\* a labelled scope without a source was destroyed without finish()
C7_Witness ==
    \E t \in Threads :
        /\ enabled /\ obj[t].kind \in IOKinds /\ ~HasSource(t)
        /\ obj[t].label # "" /\ calls[t] = 0 /\ pc[t] = "dead"
        /\ counter[1] # Zero64

\* C8: in the disabled build nothing is written to the console, the clock
\* and the sources are never read and the lock is never acquired.
C8_DisabledNoEffects ==
    ~enabled
        => /\ console = <<>>
           /\ clockReads = 0
           /\ lockAcqs = 0
           /\ mutex = NoThread
           /\ \A t \in Threads : reads[t] = 0 /\ Quiet(t)

\* in the disabled build a stage timer was constructed, done() and destroyed
C8_Witness ==
    \E t \in Threads :
        /\ ~enabled /\ obj[t].kind = "StageTimer"
        /\ calls[t] >= 1 /\ pc[t] = "dead"

\* C9: in the disabled build finish() returns the zero delta whatever the
\* source holds, and ms_since is 0 for every start instant.
C9_DisabledZeroResults ==
    ~enabled
        => /\ \A t \in Threads :
                (obj[t].kind \in IOKinds /\ calls[t] >= 1)
                    => (ret[t] = ZeroDelta /\ bytes(ret[t]) = Zero64)
           /\ \A start \in 0..MaxTime : ms_since(start, now, enabled) = 0

\* finish() was called in the disabled build on a scope whose source is not 0
C9_Witness ==
    \E t \in Threads :
        /\ ~enabled /\ obj[t].kind \in IOKinds /\ HasSource(t)
        /\ calls[t] >= 1 /\ SourceValue(t, counter) # Zero64 /\ now > 0

\* C10: for a stage timer in the enabled build the header is started at
\* most once and lies before every TOTAL insertion of the timer; between
\* operations the header is complete and there are as many complete TOTAL
\* lines as done() calls, also once the timer is destroyed.
C10_StageTimerLines ==
    \A t \in Threads :
        (enabled /\ obj[t].kind = "StageTimer")
            => /\ Cardinality(Started(t, "stage_ctor")) <= 1
               /\ \A i, j \in ChunksBy(t) :
                     (console[i].op = "stage_ctor" /\ console[j].op = "stage_done")
                         => i < j
               /\ \A i \in ChunksBy(t) :
                     console[i].op \in {"stage_ctor", "stage_done"}
               /\ Quiet(t)
                     => /\ Cardinality(Completed(t, "stage_ctor")) = 1
                        /\ Cardinality(Completed(t, "stage_done")) = calls[t]
                        /\ Cardinality(Started(t, "stage_done")) = calls[t]

\* a stage timer was destroyed after two done() calls
C10_Witness ==
    \E t \in Threads :
        /\ enabled /\ obj[t].kind = "StageTimer"
        /\ calls[t] >= 2 /\ pc[t] = "dead"

\* C11: a scoped timer in the enabled build makes no insertion before its
\* destruction, inserts nothing but its one report, and once destroyed it
\* has emitted exactly one complete report (four insertions).
C11_ScopedTimerOneLine ==
    \A t \in Threads :
        (enabled /\ obj[t].kind = "ScopedTimer")
            => /\ pc[t] \in {"live", "lock"} => ChunksBy(t) = {}
               /\ \A i \in ChunksBy(t) : console[i].op = "st_dtor"
               /\ Cardinality(Started(t, "st_dtor")) <= 1
               /\ pc[t] = "dead"
                     => /\ Cardinality(Completed(t, "st_dtor")) = 1
                        /\ Cardinality(ChunksBy(t)) = 4

\* a scoped timer has been destroyed some time after its construction
C11_Witness ==
    \E t \in Threads :
        /\ enabled /\ obj[t].kind = "ScopedTimer" /\ pc[t] = "dead"
        /\ now > obj[t].t0

\* the deltas thread t has computed
DeltasOf(t) == {ret[t], d[t], obj[t].last_}

\* a 64-bit value below 2^31 and its value as a number
Small64(x) == x[3] = 0 /\ x[4] = 0 /\ x[2] < 32768
Nat64(x) == x[1] + x[2] * U64Base

\* C12: for every delta the program computes, bytes() is a 64-bit value b
\* (four limbs in 0..65535, never negative) with b + begin = end modulo
\* 2^64; it is the plain difference when end >= begin, and it is neither 0
\* nor the difference begin - end when end < begin.
C12_BytesWrap ==
    \A t \in Threads : \A dl \in DeltasOf(t) :
        LET b == bytes(dl)
        IN  /\ Len(b) = U64Limbs
            /\ \A i \in 1..U64Limbs : b[i] \in 0..(U64Base - 1)
            /\ Add64(b, dl.begin) = dl.end
            /\ (Small64(dl.begin) /\ Small64(dl.end)
                  /\ Nat64(dl.end) >= Nat64(dl.begin))
                 => (Small64(b) /\ Nat64(b) = Nat64(dl.end) - Nat64(dl.begin))
            /\ Less64(dl.end, dl.begin)
                 => (b # Zero64 /\ Add64(dl.end, b) # dl.begin)

\* finish() has returned a delta whose end is below its begin
C12_Witness ==
    \E t \in Threads :
        /\ enabled /\ obj[t].kind \in IOKinds /\ calls[t] >= 1
        /\ Less64(ret[t].end, ret[t].begin)

\* what thread t has written: its insertions in order, without the names
\* of the thread and of the operation
Report(t) ==
    LET mine == SelectSeq(console, LAMBDA c : c.who = t)
    IN  [i \in 1..Len(mine) |->
            [stream |-> mine[i].stream, part |-> mine[i].part,
             text |-> mine[i].text, num |-> mine[i].num]]

\* C13: whenever an IOScope and a MultiIOScope on the corresponding source
\* have been through the same operations, they have the same begin
\* snapshot, finished flag and cached delta, finish() has returned the same
\* delta, they have read their source equally often and they have written
\* the same report.
C13_SameStateMachine ==
    (InSync /\ pc[Single] # "none")
        => /\ obj[Aggregated].kind = "MultiIOScope"
           /\ obj[Aggregated].reader_ = ReaderFor(obj[Single].counter_)
           /\ obj[Aggregated].label = obj[Single].label
           /\ obj[Aggregated].begin_ = obj[Single].begin_
           /\ obj[Aggregated].finished_ = obj[Single].finished_
           /\ obj[Aggregated].last_ = obj[Single].last_
           /\ ret[Aggregated] = ret[Single]
           /\ reads[Aggregated] = reads[Single]
           /\ Report(Aggregated) = Report(Single)

\* both scopes were destroyed unfinished and both have reported a source
\* that moved after construction
C13_Witness ==
    /\ InSync /\ pc[Single] = "dead"
    /\ obj[Single].kind = "IOScope" /\ obj[Aggregated].kind = "MultiIOScope"
    /\ Report(Single) # <<>>
    /\ d[Single].end # obj[Single].begin_

\* C14: every insertion of the library is made on one and the same stream.
C14_OneStream ==
    \A i, j \in DOMAIN console : console[i].stream = console[j].stream

\* C15 as stated: an I/O scope whose lifetime has ended has its finished
\* flag set, by finish() or else by its destruction.
C15_FlagSetByEndOfLife ==
    \A t \in Threads :
        (obj[t].kind \in IOKinds /\ pc[t] = "dead") => obj[t].finished_

\* C15, amended: the finished flag of an I/O scope is false after
\* construction, is true after every finish() call, is changed by no other
\* operation (destruction included) and never goes back to false.
C15_FlagSetOnlyByFinish ==
    [][\A t \in Threads :
          obj'[t].kind \in IOKinds
              => /\ pc[t] = "none" => ~obj'[t].finished_
                 /\ obj[t].finished_ => obj'[t].finished_
                 /\ FinishCall(t) => obj'[t].finished_
                 /\ (pc[t] # "none" /\ ~FinishCall(t))
                       => obj'[t].finished_ = obj[t].finished_]_vars

\* a scope was destroyed without finish(), has reported, and its flag is
\* still false
C15_Witness ==
    \E t \in Threads :
        /\ enabled /\ obj[t].kind \in IOKinds /\ pc[t] = "dead"
        /\ calls[t] = 0 /\ ChunksBy(t) # {} /\ ~obj[t].finished_

\* the destructor of thread t's I/O scope has read the source for a report
DtorHasRead(t) == pc[t] \in {"lock", "write"} \/ ChunksBy(t) # {}

\* C16: an I/O scope reads its source once at construction (if it has one,
\* in the enabled build) and once more when finish() is first called or
\* else when the destructor reports; so at most twice, and a second or
\* later finish() reads nothing.
C16_AtMostTwoReads ==
    /\ [](\A t \in Threads :
            obj[t].kind \in IOKinds
                => /\ reads[t] <= 2
                   /\ reads[t] =
                        (IF enabled /\ HasSource(t) THEN 1 ELSE 0)
                        + (IF enabled /\ HasSource(t)
                              /\ (obj[t].finished_ \/ DtorHasRead(t))
                           THEN 1 ELSE 0))
    /\ [][\A t \in Threads :
            (FinishCall(t) /\ calls[t] >= 1) => reads'[t] = reads[t]]_vars

\* a scope on a valid source was finished twice, with the source moving, and
\* destroyed
C16_Witness ==
    \E t \in Threads :
        /\ enabled /\ obj[t].kind \in IOKinds /\ HasSource(t)
        /\ calls[t] >= 2 /\ pc[t] = "dead" /\ reads[t] = 2
        /\ SourceValue(t, counter) # ret[t].end
        /\ ret[t].end # ret[t].begin

\* C17: the mutex is held by exactly the thread that is between the lock
\* acquisition and the return of its operation, so it is free whenever no
\* operation is in progress; and with a fair lock every thread that has
\* started a reporting operation completes it.
C17_LockAlwaysReleased ==
    /\ [](\A t \in Threads : (mutex = t) <=> (pc[t] = "write"))
    /\ []((\A t \in Threads : Quiet(t)) => mutex = NoThread)
    /\ \A t \in Threads : (pc[t] \in {"lock", "write"}) ~> Quiet(t)

\* a thread waits for the mutex while another thread is writing
C17_Witness ==
    \E t1, t2 \in Threads :
        /\ t1 # t2
        /\ pc[t1] = "lock" /\ pc[t2] = "write" /\ mutex = t2
        /\ part[t2] >= 1

\* positions in the console of the elapsed times of thread t's TOTAL lines
TotalsBy(t) ==
    {i \in ChunksBy(t) : console[i].op = "stage_done" /\ console[i].part = 3}

\* C18: no step changes the start instant, the name or the prefix of a
\* constructed stage timer; the start instant is the clock value at
\* construction, every TOTAL line carries the clock value of its insertion
\* minus that start instant, and the elapsed times of successive TOTAL
\* lines of one timer do not decrease.
C18_DoneKeepsStart ==
    /\ [][\A t \in Threads :
            /\ (enabled /\ pc[t] = "none" /\ obj'[t].kind = "StageTimer")
                  => obj'[t].t0 = now
            /\ (obj[t].kind = "StageTimer" /\ pc[t] # "none")
                  => (/\ obj'[t].t0 = obj[t].t0
                      /\ obj'[t].label = obj[t].label
                      /\ obj'[t].prefix = obj[t].prefix)
            /\ (obj[t].kind = "StageTimer" /\ TotalsBy(t)' # TotalsBy(t))
                  => console'[Len(console')].num = <<now - obj[t].t0>>]_vars
    /\ [](\A t \in Threads : \A i, j \in TotalsBy(t) :
            i < j => console[i].num[1] <= console[j].num[1])

\* two TOTAL lines of one timer with time passing before and between them
C18_Witness ==
    \E t \in Threads : \E i, j \in TotalsBy(t) :
        /\ i < j
        /\ 0 < console[i].num[1]
        /\ console[i].num[1] < console[j].num[1]

\* C19: a step in which an I/O scope reads its source is made without the
\* mutex, before and after; the constructors and finish() acquire nothing
\* and are complete in one step.
C19_ReadsOutsideLock ==
    [][\A t \in Threads :
          /\ reads'[t] # reads[t] => (mutex # t /\ mutex' # t)
          /\ ((pc[t] = "none" /\ obj'[t].kind \in IOKinds) \/ FinishCall(t))
                => (/\ lockAcqs' = lockAcqs
                    /\ mutex' = mutex
                    /\ pc'[t] = "live")]_vars

\* the destructor of an I/O scope holds the mutex, its two reads made
C19_Witness ==
    \E t \in Threads :
        /\ obj[t].kind \in IOKinds /\ pc[t] = "write" /\ mutex = t
        /\ reads[t] = 2 /\ part[t] >= 1

\* positions in the console of elapsed times, and the clock reading each
\* was computed from
ElapsedAt == {i \in DOMAIN console : console[i].text = "ms"}
EndReading(i) == console[i].num[1] + obj[console[i].who].t0

\* C20: the clock is read either by a constructor, by a thread that does
\* not hold the mutex and takes the value as its start instant, or for an
\* elapsed time, by the thread that holds the mutex before and after, and
\* the elapsed time written is that reading minus the start instant; the
\* elapsed times stand in the console in the order of their readings.
C20_EndReadUnderLock ==
    /\ [][clockReads' # clockReads
            => \E t \in Threads :
                  \/ /\ pc[t] = "none" /\ pc'[t] # "none"
                     /\ mutex # t /\ mutex' # t
                     /\ obj'[t].t0 = now
                  \/ /\ pc[t] = "write" /\ part'[t] # part[t]
                     /\ mutex = t /\ mutex' = t
                     /\ console'[Len(console')].who = t
                     /\ console'[Len(console')].num = <<now - obj[t].t0>>]_vars
    /\ [](\A i, j \in ElapsedAt : i < j => EndReading(i) <= EndReading(j))

\* two threads' timers ran at the same time and the one that reported
\* second reports a later end reading, time having passed in between
C20_Witness ==
    \E i, j \in ElapsedAt :
        /\ i < j
        /\ console[i].who # console[j].who
        /\ obj[console[j].who].t0 < EndReading(i)
        /\ EndReading(i) < EndReading(j)

====
